---- MODULE Spec2Model ----
(***************************************************************************)
(* A model of mlagents/trainers/sac/optimizer_torch.py: the SAC optimizer  *)
(* (TorchSACOptimizer) with the MEDE diversity network                     *)
(* (DiverseNetworkVariational).                                            *)
(*                                                                         *)
(* Tensors of floats are modelled as sequences of extended rationals: a    *)
(* finite value n/d, +inf, -inf or NaN, with the IEEE rules for the        *)
(* non-finite values (inf - inf = NaN, 0 * inf = NaN, 0 / 0 = NaN, x / 0   *)
(* = +-inf).  Rounding and overflow of finite values are not modelled.     *)
(***************************************************************************)
EXTENDS Integers, Sequences, FiniteSets, TLC

VARIABLES
    pc,             \* position of the program: construction, the steps of update
    settings,       \* the configuration read at construction
    created,        \* the components __init__ has created so far
    groups,         \* optimizer -> the parameters handed to it at construction
    steps,          \* optimizer -> number of step() calls
    steps0,         \* steps at the start of the current update call
    stepped_by,     \* parameter -> the optimizers that have stepped it
    calls,          \* number of update calls started
    order,          \* the mutating steps of the current update call, in order
    actor_norm,     \* the actor's input-normalization statistics
    critic_w,       \* the value network's weights (one abstract scalar)
    target_network, \* the target network: [w |-> weights, norm |-> statistics]
    losses,         \* the losses assembled by the current update call
    batch_info,     \* what the current mini-batch looked like
    stats,          \* what update returned: "none" or "stats"
    sal,            \* smoothed saliency per observation feature
    drop_rate,      \* MEDE drop rate per observation feature
    sal_writes,     \* number of writes to the saliency state in this call
    q_w,            \* the Q1/Q2 networks' weights (one abstract scalar)
    grad,           \* parameter -> the losses whose backward pass left gradient on it
    requires_grad,  \* parameter -> its requires_grad flag
    tracked,        \* Q head -> was the forward pass at the sampled actions tracked
    beta,           \* MEDE's adaptive KL weight, None outside noise mode
    before,         \* weights, beta and saliency state at the start of the call
    fn_in,          \* input of the pure function under test
    fn_out          \* its result

vars == <<pc, settings, created, groups, steps, steps0, stepped_by, calls, order, actor_norm,
          critic_w, target_network, losses, batch_info, stats, sal, drop_rate,
          sal_writes, q_w, grad, requires_grad, tracked, beta, before, fn_in, fn_out>>

-----------------------------------------------------------------------------
(* Extended rationals *)

RECURSIVE GCD(_, _)
GCD(a, b) == IF b = 0 THEN a ELSE GCD(b, a % b)

AbsInt(a) == IF a < 0 THEN -a ELSE a

SignInt(a) == IF a < 0 THEN -1 ELSE IF a = 0 THEN 0 ELSE 1

\* the finite value n/d, d # 0, in lowest terms with a positive denominator
Rat(n, d) ==
    LET g == GCD(AbsInt(n), AbsInt(d))
        s == IF d < 0 THEN -1 ELSE 1
    IN  [k |-> "fin", n |-> (s * n) \div g, d |-> (s * d) \div g]

Fin(n) == [k |-> "fin", n |-> n, d |-> 1]

PInf == [k |-> "pinf", n |-> 0, d |-> 1]

NInf == [k |-> "ninf", n |-> 0, d |-> 1]

NaN == [k |-> "nan", n |-> 0, d |-> 1]

isnan(x) == x.k = "nan"

isinf(x) == x.k \in {"pinf", "ninf"}

\* -1, 0, 1; not used on NaN
Sign(x) == IF x.k = "pinf" THEN 1 ELSE IF x.k = "ninf" THEN -1 ELSE SignInt(x.n)

Signed(s) == IF s > 0 THEN PInf ELSE NInf

Neg(x) ==
    CASE x.k = "fin" -> [x EXCEPT !.n = -x.n]
      [] x.k = "pinf" -> NInf
      [] x.k = "ninf" -> PInf
      [] OTHER -> NaN

Add(x, y) ==
    CASE isnan(x) \/ isnan(y) -> NaN
      [] isinf(x) /\ isinf(y) -> IF x = y THEN x ELSE NaN
      [] isinf(x) -> x
      [] isinf(y) -> y
      [] OTHER -> LET g == GCD(x.d, y.d)
                  IN  Rat(x.n * (y.d \div g) + y.n * (x.d \div g), (x.d \div g) * y.d)

Sub(x, y) == Add(x, Neg(y))

Mul(x, y) ==
    CASE isnan(x) \/ isnan(y) -> NaN
      [] isinf(x) \/ isinf(y) ->
            IF Sign(x) * Sign(y) = 0 THEN NaN ELSE Signed(Sign(x) * Sign(y))
      [] OTHER -> LET g1 == GCD(AbsInt(x.n), y.d)
                      g2 == GCD(AbsInt(y.n), x.d)
                  IN  Rat((x.n \div g1) * (y.n \div g2), (x.d \div g2) * (y.d \div g1))

Div(x, y) ==
    CASE isnan(x) \/ isnan(y) -> NaN
      [] isinf(x) /\ isinf(y) -> NaN
      [] isinf(x) -> Signed(Sign(x) * (IF Sign(y) < 0 THEN -1 ELSE 1))
      [] isinf(y) -> Fin(0)
      [] y.n = 0 -> IF x.n = 0 THEN NaN ELSE Signed(Sign(x))
      [] OTHER -> Mul(x, Rat(y.d, y.n))

\* x < y; false when either is NaN
Less(x, y) ==
    CASE isnan(x) \/ isnan(y) -> FALSE
      [] x.k = "pinf" \/ y.k = "ninf" -> FALSE
      [] x.k = "ninf" \/ y.k = "pinf" -> TRUE
      [] OTHER -> LET g == GCD(x.d, y.d)
                  IN  x.n * (y.d \div g) < y.n * (x.d \div g)

Leq(x, y) == x = y \/ Less(x, y)

\* torch.min / torch.max of two values: NaN propagates
Min2(x, y) == IF isnan(x) \/ isnan(y) THEN NaN ELSE IF Less(y, x) THEN y ELSE x

Max2(x, y) == IF isnan(x) \/ isnan(y) THEN NaN ELSE IF Less(x, y) THEN y ELSE x

Abs(x) == IF Sign(x) < 0 THEN Neg(x) ELSE x

Sq(x) == Mul(x, x)

-----------------------------------------------------------------------------
(* Tensors as sequences *)

RECURSIVE SumSeq(_)
SumSeq(s) == IF s = <<>> THEN Fin(0) ELSE Add(Head(s), SumSeq(Tail(s)))

RECURSIVE SumInts(_)
SumInts(s) == IF s = <<>> THEN 0 ELSE Head(s) + SumInts(Tail(s))

MeanSeq(s) == Div(SumSeq(s), Fin(Len(s)))

RECURSIVE MinSeq(_)
MinSeq(s) == IF Len(s) = 1 THEN Head(s) ELSE Min2(Head(s), MinSeq(Tail(s)))

RECURSIVE MaxSeq(_)
MaxSeq(s) == IF Len(s) = 1 THEN Head(s) ELSE Max2(Head(s), MaxSeq(Tail(s)))

\* all sequences of length n over S
SeqsOf(S, n) == [1..n -> S]

\* a sequence, a function: the same value, evaluated once
Tup(s) == s \o <<>>

Fcn(f) == f @@ <<>>

-----------------------------------------------------------------------------
(* ModelUtils helpers used by the optimizer *)

RECURSIVE break_into_branches(_, _)
\* split a concatenated vector into one vector per branch, by cardinality
break_into_branches(v, sizes) ==
    IF sizes = <<>> THEN <<>>
    ELSE <<SubSeq(v, 1, Head(sizes))>>
         \o break_into_branches(SubSeq(v, Head(sizes) + 1, Len(v)), Tail(sizes))

\* one one-hot vector per branch; an action is an index 0 .. size-1
actions_to_onehot(acts, sizes) ==
    Tup([i \in 1..Len(sizes) |->
            Tup([j \in 1..sizes[i] |-> IF j = acts[i] + 1 THEN Fin(1) ELSE Fin(0)])])

\* (tensor * masks).sum() / clamp(masks.sum(), min = 1); masks hold 0 or 1
masked_mean(t, masks) ==
    Div(SumSeq(Tup([b \in 1..Len(t) |-> Mul(t[b], Fin(masks[b]))])),
        Fin(IF SumInts(masks) < 1 THEN 1 ELSE SumInts(masks)))

\* target <- tau * source + (1 - tau) * target
soft_update(source, target, tau) ==
    Add(Mul(tau, source), Mul(Sub(Fin(1), tau), target))

\* elementwise product of two vectors of the same length
MulSeq(a, b) == Tup([i \in 1..Len(a) |-> Mul(a[i], b[i])])

-----------------------------------------------------------------------------
(* TorchSACOptimizer._condense_q_streams *)

\* the mutant: the selected per-branch values are summed, not averaged
condense_selected_sum(onehot_actions, branched_q) ==
    SumSeq(Tup([i \in 1..Len(branched_q) |->
                   SumSeq(MulSeq(onehot_actions[i], branched_q[i]))]))

\* lines 704-711: per branch the sum of one-hot * q, then the mean over branches
condense_selected(onehot_actions, branched_q) ==
    MeanSeq(Tup([i \in 1..Len(branched_q) |->
                    SumSeq(MulSeq(onehot_actions[i], branched_q[i]))]))

\* q_output: stream -> batch of vectors; discrete_actions: batch of index vectors
condense_q_streams(q_output, discrete_actions, branches) ==
    Fcn([key \in DOMAIN q_output |->
            Tup([b \in 1..Len(q_output[key]) |->
                    condense_selected(actions_to_onehot(discrete_actions[b], branches),
                                      break_into_branches(q_output[key][b], branches))])])

-----------------------------------------------------------------------------
(* DiverseNetworkVariational.update_saliency *)

\* torch.any: some entry is not zero
AnyNonZero(v) == \E i \in 1..Len(v) : v[i] # Fin(0)

\* drop = sal - torch.min(sal)
shift_to_min(s, lowest) == Tup([i \in 1..Len(s) |-> Sub(s[i], lowest)])

\* the mutant: the normalised saliency is not inverted
scale_not_inverted(drop, highest, max_dropout) ==
    Tup([i \in 1..Len(drop) |-> Mul(Div(drop[i], highest), max_dropout)])

\* drop = 1 - drop / torch.max(drop); drop *= max dropout
invert_and_scale(drop, highest, max_dropout) ==
    Tup([i \in 1..Len(drop) |-> Mul(Sub(Fin(1), Div(drop[i], highest)), max_dropout)])

rescale_shifted(drop, max_dropout) == invert_and_scale(drop, MaxSeq(drop), max_dropout)

\* lines 156-158 and 162-164
rescale(s, max_dropout) == rescale_shifted(shift_to_min(s, MinSeq(s)), max_dropout)

RECURSIVE WithoutIndex(_, _)
\* the list without its element at (1-based) position i; the list itself if i = 0
WithoutIndex(s, i) ==
    IF s = <<>> THEN <<>>
    ELSE IF i = 1 THEN Tail(s)
    ELSE <<Head(s)>> \o WithoutIndex(Tail(s), IF i = 0 THEN 0 ELSE i - 1)

\* the rescaled saliency, or the stored rates if the saliency is all zero
refreshed(old_rates, saliency, max_dropout) ==
    IF AnyNonZero(saliency) THEN rescale(saliency, max_dropout) ELSE old_rates

update_saliency_kept(old, kept, sal_cont_actions, max_dropout) ==
    [obs  |-> Tup([i \in 1..Len(kept) |-> refreshed(old.obs[i], kept[i], max_dropout)]),
     cont |-> refreshed(old.cont, sal_cont_actions, max_dropout)]

\* old: the stored drop rates [obs |-> one vector per non-goal observation,
\* cont |-> vector]; diverse_index: position of the goal observation
update_saliency(old, sal_observations, sal_cont_actions, diverse_index, max_dropout) ==
    update_saliency_kept(old, WithoutIndex(sal_observations, diverse_index),
                         sal_cont_actions, max_dropout)

-----------------------------------------------------------------------------
(* Loss assembly: sac_q_loss and sac_value_loss *)

Half == Rat(1, 2)

\* the constant vector of length n
Broadcast(x, n) == Tup([b \in 1..n |-> x])

\* torch.nn.functional.mse_loss with its default reduction: the mean over all
\* elements, a scalar
mse_loss(a, b) == MeanSeq(Tup([i \in 1..Len(a) |-> Sq(Sub(a[i], b[i]))]))

\* exp of a log-probability.  Log-probabilities are integers in base 2, so that
\* the probabilities stay rational: exp(0) = 1, exp(-1) = 1/2, exp(-inf) = 0
Exp(x) ==
    CASE x.k = "nan" -> NaN
      [] x.k = "pinf" -> PInf
      [] x.k = "ninf" -> Fin(0)
      [] OTHER -> IF x.n <= 0 THEN Rat(1, 2 ^ (-x.n)) ELSE Fin(2 ^ x.n)

ExpSeq(v) == Tup([j \in 1..Len(v) |-> Exp(v[j])])

\* 0.5 * masked_mean(mse_loss(a, b), loss_masks)
half_masked_mse(a, b, loss_masks) ==
    Mul(Half, masked_mean(Broadcast(mse_loss(a, b), Len(loss_masks)), loss_masks))

\* the mutant: every stream uses the terminal flag
use_dones_in_backup_always(stream) == 1

\* 1 unless the reward signal ignores the terminal state
use_dones_in_backup(stream) == IF stream.ignore_done THEN 0 ELSE 1

\* reward + (1 - use_dones_in_backup * done) * gamma * target_value
q_backup(reward, done, target_value, gamma, use_dones) ==
    Add(reward, Mul(Mul(Sub(Fin(1), Mul(Fin(use_dones), Fin(done))), gamma), target_value))

\* the backup of every sample of one stream
stream_backup(stream, rewards, dones, target_values) ==
    Tup([b \in 1..Len(dones) |->
            q_backup(rewards[stream.name][b], dones[b], target_values[stream.name][b],
                     stream.gamma, use_dones_in_backup(stream))])

\* the loss of one Q head: the mean over the streams
q_head_loss(streams, q_out, target_values, dones, rewards, loss_masks) ==
    MeanSeq(Tup([i \in 1..Len(streams) |->
                    half_masked_mse(stream_backup(streams[i], rewards, dones, target_values),
                                    q_out[streams[i].name], loss_masks)]))

\* streams: sequence of [name, gamma, ignore_done]; q1_out, q2_out, target_values,
\* rewards: stream name -> batch of scalars; dones, loss_masks: batch of 0/1.
\* Returns <<q1_loss, q2_loss>>
sac_q_loss(streams, q1_out, q2_out, target_values, dones, rewards, loss_masks) ==
    <<q_head_loss(streams, q1_out, target_values, dones, rewards, loss_masks),
      q_head_loss(streams, q2_out, target_values, dones, rewards, loss_masks)>>

\* sum over the continuous dimensions of coefficient * log-probability
cont_entropy_term(cont_ent_coef, logp) ==
    SumSeq(Tup([j \in 1..Len(logp) |-> Mul(cont_ent_coef, logp[j])]))

\* mean over the branches of the sum within each branch
mean_of_branch_sums(branched) ==
    MeanSeq(Tup([i \in 1..Len(branched) |-> SumSeq(branched[i])]))

\* mean over branches of the sum, within a branch, of q * action probability
branch_mean_q(q, disc_logp, branches) ==
    mean_of_branch_sums(break_into_branches(MulSeq(q, ExpSeq(disc_logp)), branches))

\* mean over the branches of the sum within each branch of alpha_i * entry
mean_of_weighted_branch_sums(disc_ent_coef, branched) ==
    MeanSeq(Tup([i \in 1..Len(branched) |->
                    SumSeq(Tup([j \in 1..Len(branched[i]) |->
                                   Mul(disc_ent_coef[i], branched[i][j])]))]))

\* mean over branches of alpha_i * sum(log p * p)
branch_mean_ent_bonus(disc_ent_coef, disc_logp, branches) ==
    mean_of_weighted_branch_sums(disc_ent_coef,
        break_into_branches(MulSeq(disc_logp, ExpSeq(disc_logp)), branches))

\* lines 556-559: the backup without discrete actions
v_backup_continuous(q1p, q2p, cont_logp, mede_reward, coef, mede_strength) ==
    Add(Sub(Min2(q1p, q2p), cont_entropy_term(coef.continuous, cont_logp)),
        Mul(mede_strength, mede_reward))

\* lines 579-582: the backup with discrete actions, before the continuous term
v_backup_discrete(branches, q1p, q2p, disc_logp, mede_reward, coef, mede_strength) ==
    Add(Sub(Min2(branch_mean_q(q1p, disc_logp, branches),
                 branch_mean_q(q2p, disc_logp, branches)),
            branch_mean_ent_bonus(coef.discrete, disc_logp, branches)),
        Mul(mede_strength, mede_reward))

\* the backup value of one sample of one stream
v_backup(spec, q1p, q2p, cont_logp, disc_logp, mede_reward, coef, mede_strength) ==
    IF Len(spec.discrete_branches) <= 0
    THEN v_backup_continuous(q1p, q2p, cont_logp, mede_reward, coef, mede_strength)
    ELSE IF spec.continuous_size > 0
         THEN Add(v_backup_discrete(spec.discrete_branches, q1p, q2p, disc_logp,
                                    mede_reward, coef, mede_strength),
                  cont_entropy_term(coef.continuous, cont_logp))
         ELSE v_backup_discrete(spec.discrete_branches, q1p, q2p, disc_logp,
                                mede_reward, coef, mede_strength)

\* the backup of every sample of one stream
value_backup(spec, name, log_probs, q1p_out, q2p_out, mede_rewards, coef, mede_strength) ==
    Tup([b \in 1..Len(mede_rewards) |->
            v_backup(spec, q1p_out[name][b], q2p_out[name][b],
                     log_probs.continuous_tensor[b], log_probs.all_discrete_tensor[b],
                     mede_rewards[b], coef, mede_strength)])

\* names: sequence of stream names; values: name -> batch of scalars; q1p_out,
\* q2p_out: name -> batch of scalars (no discrete actions) or of vectors;
\* log_probs: [continuous_tensor, all_discrete_tensor], each a batch of vectors;
\* mede_rewards: batch of scalars; coef: [continuous, discrete] the exponentiated
\* entropy coefficients.  Returns the value loss, before the check that raises
sac_value_loss(spec, names, log_probs, values, q1p_out, q2p_out, loss_masks, mede_rewards, coef, mede_strength) ==
    MeanSeq(Tup([i \in 1..Len(names) |->
                    half_masked_mse(values[names[i]],
                                    value_backup(spec, names[i], log_probs, q1p_out,
                                                 q2p_out, mede_rewards, coef,
                                                 mede_strength),
                                    loss_masks)]))

\* the mutant: only an infinite loss is detected
value_loss_raises_inf_only(value_loss) == isinf(value_loss)

\* if torch.isinf(value_loss).any() or torch.isnan(value_loss).any(): raise
value_loss_raises(value_loss) == isinf(value_loss) \/ isnan(value_loss)

-----------------------------------------------------------------------------
(* Bounds and input sets *)

\* update calls per behaviour
MaxUpdates == 2

\* largest Q-value and saliency drawn for the pure functions
MaxVal == 2

None == [k |-> "none", n |-> 0, d |-> 1]

Vals == {Fin(0), Fin(1)}

\* the running normalization statistics of the actor
ActorNorms == {Fin(1)}

\* what one Adam step adds to a weight that holds gradient
WeightDeltas == {Fin(1)}

ActionSpecs ==
    { [continuous_size |-> 1, discrete_branches |-> <<>>],
      [continuous_size |-> 1, discrete_branches |-> <<2>>] }

\* noise mode and the MEDE term of the policy loss vary only with MEDE enabled
SettingsSet ==
    {s \in [shared_critic : BOOLEAN, mede : BOOLEAN,
            mede_saliency_dropout : {Fin(0), Half},
            action_spec : ActionSpecs, tau : {Half}, mede_strength : {Fin(1)},
            mede_noise : BOOLEAN, mede_for_policy_loss : BOOLEAN,
            mede_mutual_information : {Fin(1)}] :
        ~s.mede => (~s.mede_noise /\ ~s.mede_for_policy_loss)}

\* the reward signals: one stream
Streams == <<[name |-> "extrinsic", gamma |-> Half, ignore_done |-> FALSE]>>

StreamNames == Tup([i \in 1..Len(Streams) |-> Streams[i].name])

Optimizers == {"policy", "value", "entropy", "mede"}

-----------------------------------------------------------------------------
(* Parameters of the networks *)

ActorParameters == {"actor"}

QNetworkParameters == {"q1_network", "q2_network"}

CriticParameters == {"critic"}

TargetParameters == {"target_network"}

LogEntCoefParameters == {"log_ent_coef.discrete", "log_ent_coef.continuous"}

MedeParameters == {"mede._encoder", "mede._z_sigma", "mede._beta", "mede._last_layer"}

AllParameters ==
    ActorParameters \cup QNetworkParameters \cup CriticParameters \cup TargetParameters
    \cup LogEntCoefParameters \cup MedeParameters

policy_params == ActorParameters

\* the mutant: the target network is handed to the value optimizer too
value_params_with_target == QNetworkParameters \cup CriticParameters \cup TargetParameters

value_params == QNetworkParameters \cup CriticParameters

\* the parameters of the MEDE network: _z_sigma and _beta exist in noise mode only
mede_parameters(s) ==
    IF s.mede_noise THEN MedeParameters
    ELSE MedeParameters \ {"mede._z_sigma", "mede._beta"}

-----------------------------------------------------------------------------
(* Gradients: which backward pass left gradient on which parameter *)

Losses == {"policy_loss", "value_loss", "entropy_loss", "mede_loss", "saliency_q"}

\* PolicyValueNetwork.forward: a head is evaluated under no_grad unless its flag is set
forward(q1_grad, q2_grad) == [q1_network |-> q1_grad, q2_network |-> q2_grad]

\* the mutant: both heads are evaluated under no_grad
policy_forward_no_grad == forward(FALSE, FALSE)

\* the forward pass at the actor-sampled actions: q2_grad=False, q1_grad defaulted
policy_forward == forward(TRUE, FALSE)

\* the entropy coefficients the action space uses
used_ent_coefs(s) ==
    (IF s.action_spec.continuous_size > 0 THEN {"log_ent_coef.continuous"} ELSE {})
    \cup (IF s.action_spec.discrete_branches # <<>> THEN {"log_ent_coef.discrete"} ELSE {})

\* the parameters in the autograd graph of each loss
loss_leaves(loss, s, tr) ==
    CASE loss = "policy_loss" ->
            ActorParameters \cup used_ent_coefs(s)
            \cup (IF tr.q1_network THEN {"q1_network"} ELSE {})
            \cup (IF s.mede /\ s.mede_for_policy_loss
                  THEN {"mede._encoder", "mede._last_layer"} ELSE {})
      [] loss = "value_loss" -> QNetworkParameters \cup CriticParameters
      [] loss = "entropy_loss" -> used_ent_coefs(s)
      [] loss = "mede_loss" -> mede_parameters(s)
      [] loss = "saliency_q" -> {"q1_network"}

\* the mutant: zero_grad clears nothing
zero_grad_skipped(params, g) == g

\* optimizer.zero_grad(), module.zero_grad()
zero_grad(params, g) == [p \in AllParameters |-> IF p \in params THEN {} ELSE g[p]]

\* loss.backward(): gradient lands on the leaves that require it
backward(loss, g, leaves, rg) ==
    [p \in AllParameters |-> IF p \in leaves /\ rg[p] THEN g[p] \cup {loss} ELSE g[p]]

\* Adam's step: a parameter without gradient is skipped
adam_step(w, g, delta) == IF g = {} THEN w ELSE Add(w, delta)

\* the mutant: _beta is created as a trainable parameter
beta_requires_grad_set == TRUE

\* _beta is created with requires_grad=False
beta_requires_grad == FALSE

\* the mutant: the parameters stay frozen
unfreeze_skipped(params, rg) == rg

\* for p in params: p.requires_grad = True
unfreeze(params, rg) == [p \in AllParameters |-> IF p \in params THEN TRUE ELSE rg[p]]

\* for p in params: p.requires_grad = False
freeze(params, rg) == [p \in AllParameters |-> IF p \in params THEN FALSE ELSE rg[p]]

\* DiverseNetworkVariational.alpha
Alpha == Rat(1, 2000)

\* the mutant: the weight is not clamped at 0
dual_ascent_unclamped(b, kl, target) == Add(b, Mul(Alpha, Sub(kl, target)))

\* beta <- max(beta + alpha * (kl_loss - mutual_information), 0)
dual_ascent(b, kl, target) == Max2(Add(b, Mul(Alpha, Sub(kl, target))), Fin(0))

\* the mutant: computing the rewards runs the dual ascent as well
rewards_beta_ascent(b, s) == dual_ascent(b, Fin(3), s.mede_mutual_information)

\* rewards and predict leave beta alone
rewards_beta(b, s) == b

-----------------------------------------------------------------------------
(* Construction: TorchSACOptimizer.__init__ *)

ZeroVec(n) == Tup([i \in 1..n |-> Fin(0)])

\* observation 1: a vector of 2 features; observation 2: the goal signal
ObsShapes == <<2, 2>>

\* position of the GOAL_SIGNAL observation
DiverseIndex == 2

Components ==
    {"critic", "q_network", "target_network", "log_ent_coef", "mede_network",
     "mede_optimizer", "policy_optimizer", "value_optimizer", "entropy_optimizer"}

\* the mutant: the critic is built before the check
built_critic_before_check == {"critic"}

\* what exists when the shared_critic check runs
built_before_check == {}

Init ==
    /\ pc = "new"
    /\ settings \in SettingsSet
    /\ created = {}
    /\ groups = [o \in Optimizers |-> {}]
    /\ steps = [o \in Optimizers |-> 0]
    /\ steps0 = [o \in Optimizers |-> 0]
    /\ stepped_by = [p \in AllParameters |-> {}]
    /\ calls = 0
    /\ order = <<>>
    /\ actor_norm \in ActorNorms
    /\ critic_w = Fin(0)
    /\ target_network = [w |-> None, norm |-> None]
    /\ losses = [q1 |-> None, q2 |-> None, value |-> None]
    /\ batch_info = [reward_pinf |-> FALSE, rest_finite |-> FALSE, mask |-> 0]
    /\ stats = "none"
    /\ sal = [obs |-> <<>>, cont |-> <<>>]
    /\ drop_rate = [obs |-> <<>>, cont |-> <<>>]
    /\ sal_writes = 0
    /\ q_w = Fin(0)
    /\ grad = [p \in AllParameters |-> {}]
    /\ requires_grad = [p \in AllParameters |-> TRUE]
    /\ tracked = None
    /\ beta = None
    /\ before = None
    /\ fn_in = None
    /\ fn_out = None

\* lines 338-343: the shared_critic check
ConstructCheck ==
    /\ pc = "new"
    /\ created' = built_before_check
    /\ pc' = IF settings.shared_critic THEN "ctor_raised" ELSE "checked"
    /\ UNCHANGED <<settings, groups, steps, steps0, stepped_by, calls, order, actor_norm,
                   critic_w, target_network, losses, batch_info, stats, sal, drop_rate,
                   sal_writes, fn_in, fn_out,
                   q_w, grad, requires_grad, tracked, beta, before>>

\* lines 344-459: the networks, the hard copy into the target, the optimizers
ConstructBuild ==
    /\ pc = "checked"
    /\ created' = (Components \ (IF settings.mede THEN {} ELSE {"mede_network", "mede_optimizer"}))
    /\ target_network' = [w |-> soft_update(critic_w, Fin(0), Fin(1)), norm |-> Fin(0)]
    /\ groups' = [o \in Optimizers |->
                    CASE o = "policy" -> policy_params
                      [] o = "value" -> value_params
                      [] o = "entropy" -> LogEntCoefParameters
                      [] OTHER -> IF settings.mede THEN mede_parameters(settings) ELSE {}]
    /\ sal' = [obs |-> [i \in 1..Len(ObsShapes) |-> ZeroVec(ObsShapes[i])],
               cont |-> ZeroVec(settings.action_spec.continuous_size)]
    /\ drop_rate' = IF settings.mede
                    THEN [obs |-> WithoutIndex([i \in 1..Len(ObsShapes) |-> ZeroVec(ObsShapes[i])],
                                               DiverseIndex),
                          cont |-> ZeroVec(settings.action_spec.continuous_size)]
                    ELSE drop_rate
    /\ requires_grad' = [p \in AllParameters |->
                            IF p = "mede._beta" THEN beta_requires_grad ELSE TRUE]
    /\ beta' = IF settings.mede /\ settings.mede_noise THEN Fin(0) ELSE None
    /\ pc' = "idle"
    /\ UNCHANGED <<settings, steps, steps0, stepped_by, calls, order, actor_norm, critic_w,
                   losses, batch_info, stats, sal_writes, fn_in, fn_out,
                   q_w, grad, tracked, before>>

-----------------------------------------------------------------------------
(* TorchSACOptimizer.update *)

Positive(x) == Less(Fin(0), x)

\* the mutant: the saliency refresh does not depend on MEDE's dropout setting
update_program_always_refresh(s) ==
    <<"policy_step", "value_step", "entropy_step", "soft_update">>
    \o (IF s.mede THEN <<"mede_step", "saliency_refresh">> ELSE <<>>)

\* the mutant: the target network is smoothed last
update_program_soft_update_last(s) ==
    <<"policy_step", "value_step", "entropy_step">>
    \o (IF s.mede
        THEN <<"mede_step">> \o (IF Positive(s.mede_saliency_dropout)
                                 THEN <<"saliency_refresh">> ELSE <<>>)
        ELSE <<>>)
    \o <<"soft_update">>

\* the mutant: the value loss is folded into the policy step
update_program_no_value_step(s) ==
    <<"policy_step", "entropy_step", "soft_update">>
    \o (IF s.mede
        THEN <<"mede_step">> \o (IF Positive(s.mede_saliency_dropout)
                                 THEN <<"saliency_refresh">> ELSE <<>>)
        ELSE <<>>)

\* lines 908-957: the mutating steps of update in the order of the code
update_program(s) ==
    <<"policy_step", "value_step", "entropy_step", "soft_update">>
    \o (IF s.mede
        THEN <<"mede_step">> \o (IF Positive(s.mede_saliency_dropout)
                                 THEN <<"saliency_refresh">> ELSE <<>>)
        ELSE <<>>)

\* the step that follows step cur of the current call, or "return"
step_after(cur) ==
    LET prog == update_program(settings)
        i == CHOOSE j \in 1..Len(prog) : prog[j] = cur
    IN  IF i = Len(prog) THEN "return" ELSE prog[i + 1]

\* optimizer.step(): every parameter of the optimizer's group is stepped
optimizer_step(opt) ==
    /\ steps' = [steps EXCEPT ![opt] = @ + 1]
    /\ stepped_by' = [p \in AllParameters |->
                        IF p \in groups[opt] THEN stepped_by[p] \cup {opt}
                        ELSE stepped_by[p]]
    /\ target_network' = IF TargetParameters \subseteq groups[opt]
                         THEN [target_network EXCEPT !.w = Add(@, Fin(1))]
                         ELSE target_network

\* inputs of the update: rewards, network outputs, log-probabilities.  A Q
\* output of one sample is a scalar without discrete actions, else one value
\* per discrete action
RewardVals == {Fin(1), PInf}

TargetVals == {Fin(1)}

ValueVals == {Fin(0), PInf}

Q1Outs(branches) ==
    IF branches = <<>> THEN {Fin(1)} ELSE {<<Fin(0), Fin(1)>>}

Q2Outs(branches) ==
    IF branches = <<>> THEN {Fin(0)} ELSE {<<Fin(0), Fin(0)>>}

Q1pOuts(branches) ==
    IF branches = <<>> THEN {Fin(1), PInf, NaN}
    ELSE {<<Fin(1), Fin(0)>>, <<PInf, Fin(0)>>, <<NaN, Fin(0)>>}

Q2pOuts(branches) ==
    IF branches = <<>> THEN {Fin(1)} ELSE {<<Fin(1), Fin(1)>>}

ContLogProbs == {<<Fin(-1)>>}

\* per discrete branch of size 2: uniform, or all mass on the first action
DiscLogProbs(branches) ==
    IF branches = <<>> THEN {<<>>} ELSE {<<Fin(-1), Fin(-1)>>, <<Fin(0), NInf>>}

DiscActions(branches) ==
    IF branches = <<>> THEN {<<>>} ELSE {<<a>> : a \in 0..(branches[1] - 1)}

EntCoefs == {[continuous |-> Fin(1), discrete |-> <<Fin(1)>>]}

IsFinite(x) == x.k = "fin"

AllFinite(v) == \A i \in 1..Len(v) : IsFinite(v[i])

QFinite(q, branches) == IF branches = <<>> THEN IsFinite(q) ELSE AllFinite(q)

\* one stream, one sample
OneSample(x) == Fcn([name \in {Streams[1].name} |-> <<x>>])

\* lines 775-891: unpack the batch, copy the normalizers, run the forward passes
UpdateBegin ==
    /\ pc \in {"idle", "returned", "raised", "saliency_raised"}
    /\ calls < MaxUpdates
    /\ calls' = calls + 1
    /\ steps0' = steps
    /\ order' = <<>>
    /\ stats' = "none"
    /\ sal_writes' = 0
    /\ losses' = [q1 |-> None, q2 |-> None, value |-> None]
    /\ batch_info' = [reward_pinf |-> FALSE, rest_finite |-> FALSE, mask |-> 0]
    /\ target_network' = [target_network EXCEPT !.norm = actor_norm]
    /\ tracked' = policy_forward
    /\ beta' = IF beta = None THEN None ELSE rewards_beta(beta, settings)
    /\ before' = [critic_w |-> critic_w, q_w |-> q_w, beta |-> beta, sal |-> sal,
                  drop_rate |-> drop_rate, target_w |-> target_network.w]
    /\ pc' = "q_loss"
    /\ UNCHANGED <<settings, created, groups, steps, stepped_by, actor_norm, critic_w,
                   sal, drop_rate, fn_in, fn_out,
                   q_w, grad, requires_grad>>

\* lines 854-859, 893-895: condense the Q streams, sac_q_loss
QLossStep ==
    /\ pc = "q_loss"
    /\ LET br == settings.action_spec.discrete_branches
       IN  \E reward \in RewardVals, done \in {0}, mask \in {0, 1},
              target_value \in TargetVals,
              q1_out \in Q1Outs(br), q2_out \in Q2Outs(br),
              act \in DiscActions(br) :
              LET q1_stream == IF br = <<>> THEN OneSample(q1_out)
                               ELSE condense_q_streams(OneSample(q1_out), <<act>>, br)
                  q2_stream == IF br = <<>> THEN OneSample(q2_out)
                               ELSE condense_q_streams(OneSample(q2_out), <<act>>, br)
                  res == sac_q_loss(Streams, q1_stream, q2_stream,
                                    OneSample(target_value), <<done>>,
                                    OneSample(reward), <<mask>>)
              IN  /\ losses' = [losses EXCEPT !.q1 = res[1], !.q2 = res[2]]
                  /\ batch_info' = [reward_pinf |-> reward = PInf,
                                    rest_finite |-> TRUE, mask |-> mask]
    /\ pc' = "value_loss"
    /\ UNCHANGED <<settings, created, groups, steps, steps0, stepped_by, calls, order,
                   actor_norm, critic_w, target_network, stats, sal, drop_rate,
                   sal_writes, fn_in, fn_out,
                   q_w, grad, requires_grad, tracked, beta, before>>

\* lines 896-906: sac_value_loss and its check, the policy and entropy losses
ValueLossStep ==
    /\ pc = "value_loss"
    /\ LET br == settings.action_spec.discrete_branches
       IN  \E value \in ValueVals,
              q1p \in Q1pOuts(br), q2p \in Q2pOuts(br),
              cont_logp \in ContLogProbs, disc_logp \in DiscLogProbs(br),
              mede_reward \in (IF settings.mede THEN {Fin(0), Fin(-1)} ELSE {Fin(0)}),
              coef \in EntCoefs :
              LET value_loss ==
                      sac_value_loss(settings.action_spec, StreamNames,
                          [continuous_tensor |-> <<cont_logp>>,
                           all_discrete_tensor |-> <<disc_logp>>],
                          OneSample(value), OneSample(q1p), OneSample(q2p),
                          <<batch_info.mask>>, <<mede_reward>>, coef,
                          settings.mede_strength)
              IN  /\ losses' = [losses EXCEPT !.value = value_loss]
                  /\ batch_info' = [batch_info EXCEPT !.rest_finite =
                                        /\ IsFinite(value) /\ QFinite(q1p, br)
                                        /\ QFinite(q2p, br) /\ AllFinite(disc_logp)]
                  /\ pc' = IF value_loss_raises(value_loss) THEN "raised"
                           ELSE update_program(settings)[1]
    /\ UNCHANGED <<settings, created, groups, steps, steps0, stepped_by, calls, order,
                   actor_norm, critic_w, target_network, stats, sal, drop_rate,
                   sal_writes, fn_in, fn_out,
                   q_w, grad, requires_grad, tracked, beta, before>>

\* lines 908-912
PolicyStep ==
    /\ pc = "policy_step"
    /\ optimizer_step("policy")
    /\ grad' = backward("policy_loss", zero_grad(groups["policy"], grad),
                      loss_leaves("policy_loss", settings, tracked), requires_grad)
    /\ order' = Append(order, "policy_step")
    /\ pc' = step_after("policy_step")
    /\ UNCHANGED <<settings, created, groups, steps0, calls, actor_norm, critic_w,
                   losses, batch_info, stats, sal, drop_rate,
                   sal_writes, fn_in, fn_out,
                   q_w, requires_grad, tracked, beta, before>>

\* lines 914-917: the step moves the value network's weights, or leaves them
ValueStep ==
    /\ pc = "value_step"
    /\ optimizer_step("value")
    /\ grad' = backward("value_loss", zero_grad(groups["value"], grad),
                      loss_leaves("value_loss", settings, tracked), requires_grad)
    /\ \E delta \in WeightDeltas :
          /\ critic_w' = adam_step(critic_w, grad'["critic"], delta)
          /\ q_w' = adam_step(q_w, grad'["q1_network"], delta)
    /\ order' = Append(order, "value_step")
    /\ pc' = step_after("value_step")
    /\ UNCHANGED <<settings, created, groups, steps0, calls, actor_norm,
                   losses, batch_info, stats, sal, drop_rate,
                   sal_writes, fn_in, fn_out,
                   requires_grad, tracked, beta, before>>

\* lines 919-922
EntropyStep ==
    /\ pc = "entropy_step"
    /\ optimizer_step("entropy")
    /\ grad' = backward("entropy_loss", zero_grad(groups["entropy"], grad),
                      loss_leaves("entropy_loss", settings, tracked), requires_grad)
    /\ order' = Append(order, "entropy_step")
    /\ pc' = step_after("entropy_step")
    /\ UNCHANGED <<settings, created, groups, steps0, calls, actor_norm, critic_w,
                   losses, batch_info, stats, sal, drop_rate,
                   sal_writes, fn_in, fn_out,
                   q_w, requires_grad, tracked, beta, before>>

\* lines 924-925
SoftUpdateStep ==
    /\ pc = "soft_update"
    /\ target_network' = [target_network EXCEPT
                             !.w = soft_update(critic_w, target_network.w, settings.tau)]
    /\ order' = Append(order, "soft_update")
    /\ pc' = step_after("soft_update")
    /\ UNCHANGED <<settings, created, groups, steps, steps0, stepped_by, calls,
                   actor_norm, critic_w, losses, batch_info, stats, sal, drop_rate,
                   sal_writes, fn_in, fn_out,
                   q_w, grad, requires_grad, tracked, beta, before>>

\* the KL loss of the bottleneck
KlVals == {Fin(0), Fin(3)}

\* lines 941-949: the MEDE loss (with the dual ascent on beta) and its optimizer step
MedeStep ==
    /\ pc = "mede_step"
    /\ optimizer_step("mede")
    /\ grad' = backward("mede_loss", zero_grad(groups["mede"], grad),
                      loss_leaves("mede_loss", settings, tracked), requires_grad)
    /\ \E kl \in (IF beta = None THEN {Fin(0)} ELSE KlVals) :
          beta' = IF beta = None THEN None
                  ELSE adam_step(dual_ascent(beta, kl, settings.mede_mutual_information),
                                 grad'["mede._beta"], Fin(-1))
    /\ order' = Append(order, "mede_step")
    /\ pc' = step_after("mede_step")
    /\ UNCHANGED <<settings, created, groups, steps0, calls, actor_norm, critic_w,
                   losses, batch_info, stats, sal, drop_rate,
                   sal_writes, fn_in, fn_out,
                   q_w, requires_grad, tracked, before>>

SalWeight == Rat(1, 100)

\* smoothed <- weight * |grad| + (1 - weight) * smoothed, elementwise
smooth(g, old) ==
    Tup([i \in 1..Len(old) |->
            Add(Mul(SalWeight, g[i]), Mul(Sub(Fin(1), SalWeight), old[i]))])

\* mean absolute input gradients of Q1: per feature of observation 1, of the
\* goal observation, per continuous action
ObsGrads == {<<Fin(0), Fin(0)>>, <<Fin(1), Fin(2)>>}

GoalGrads == {<<Fin(1), Fin(0)>>}

ContGrads == {<<Fin(1)>>}

\* lines 951-957 and _update_saliency, lines 714-762
SaliencyStep ==
    /\ pc = "saliency_refresh"
    /\ \E g1 \in ObsGrads, g2 \in GoalGrads, gc \in ContGrads :
          LET new_sal == [obs |-> <<smooth(g1, sal.obs[1]), smooth(g2, sal.obs[2])>>,
                          cont |-> IF settings.action_spec.continuous_size > 0
                                   THEN smooth(gc, sal.cont) ELSE sal.cont]
          IN  /\ sal' = new_sal
              /\ drop_rate' = update_saliency(drop_rate, new_sal.obs, new_sal.cont,
                                              DiverseIndex,
                                              settings.mede_saliency_dropout)
    /\ sal_writes' = sal_writes + 1
    /\ requires_grad' = unfreeze(QNetworkParameters, freeze(QNetworkParameters, requires_grad))
    /\ grad' = zero_grad(QNetworkParameters,
                         backward("saliency_q", grad,
                                  loss_leaves("saliency_q", settings, tracked),
                                  freeze(QNetworkParameters, requires_grad)))
    /\ order' = Append(order, "saliency_refresh")
    /\ pc' = step_after("saliency_refresh")
    /\ UNCHANGED <<settings, created, groups, steps, steps0, stepped_by, calls,
                   actor_norm, critic_w, target_network, losses, batch_info, stats,
                   fn_in, fn_out,
                   q_w, tracked, beta, before>>

\* _update_saliency raises after the freeze (the forward pass fails, an input
\* holds no gradient, a shape assertion fails): nothing restores the flags
SaliencyRaise ==
    /\ pc = "saliency_refresh"
    /\ requires_grad' = freeze(QNetworkParameters, requires_grad)
    /\ pc' = "saliency_raised"
    /\ UNCHANGED <<settings, created, groups, steps, steps0, stepped_by, calls, order,
                   actor_norm, critic_w, target_network, losses, batch_info, stats, sal,
                   drop_rate, sal_writes, fn_in, fn_out,
                   q_w, grad, tracked, beta, before>>

\* line 967: the stats mapping is returned
Return ==
    /\ pc = "return"
    /\ stats' = "stats"
    /\ pc' = "returned"
    /\ UNCHANGED <<settings, created, groups, steps, steps0, stepped_by, calls, order,
                   actor_norm, critic_w, target_network, losses, batch_info, sal,
                   drop_rate, sal_writes, fn_in, fn_out,
                   q_w, grad, requires_grad, tracked, beta, before>>

Next ==
    \/ ConstructCheck
    \/ ConstructBuild
    \/ UpdateBegin
    \/ QLossStep
    \/ ValueLossStep
    \/ PolicyStep
    \/ ValueStep
    \/ EntropyStep
    \/ SoftUpdateStep
    \/ MedeStep
    \/ SaliencyStep
    \/ SaliencyRaise
    \/ Return

Spec == Init /\ [][Next]_vars

-----------------------------------------------------------------------------
(* The pure functions on their own: the input is drawn by the initial state *)

FnVals == {Fin(i) : i \in 0..MaxVal}

\* every variable of the optimizer at rest
AtRest ==
    /\ settings = [shared_critic |-> FALSE, mede |-> TRUE,
                   mede_saliency_dropout |-> Half,
                   action_spec |-> [continuous_size |-> 1, discrete_branches |-> <<>>],
                   tau |-> Half, mede_strength |-> Fin(1),
                   mede_noise |-> FALSE, mede_for_policy_loss |-> FALSE,
                   mede_mutual_information |-> Fin(1)]
    /\ created = {}
    /\ groups = [o \in Optimizers |-> {}]
    /\ steps = [o \in Optimizers |-> 0]
    /\ steps0 = [o \in Optimizers |-> 0]
    /\ stepped_by = [p \in AllParameters |-> {}]
    /\ calls = 0
    /\ order = <<>>
    /\ actor_norm = Fin(0)
    /\ critic_w = Fin(0)
    /\ target_network = [w |-> None, norm |-> None]
    /\ losses = [q1 |-> None, q2 |-> None, value |-> None]
    /\ batch_info = [reward_pinf |-> FALSE, rest_finite |-> FALSE, mask |-> 0]
    /\ stats = "none"
    /\ sal = [obs |-> <<>>, cont |-> <<>>]
    /\ drop_rate = [obs |-> <<>>, cont |-> <<>>]
    /\ sal_writes = 0
    /\ q_w = Fin(0)
    /\ grad = [p \in AllParameters |-> {}]
    /\ requires_grad = [p \in AllParameters |-> TRUE]
    /\ tracked = None
    /\ beta = None
    /\ before = None

\* every vector of action indices: one index below the cardinality per branch
AllActions(branches) ==
    {a \in [1..Len(branches) -> 0..SumInts(branches)] :
        \A i \in 1..Len(branches) : a[i] < branches[i]}

\* branches [3,2], one stream, one sample; branches [2,1], two streams, one
\* sample; one branch [2], one stream, two samples
CondenseInputs ==
    {[branches |-> <<3, 2>>, q_output |-> [k \in {"extrinsic"} |-> <<q>>],
      discrete_actions |-> <<a>>] :
        q \in SeqsOf(FnVals, 5), a \in AllActions(<<3, 2>>)}
    \cup
    {[branches |-> <<2, 1>>,
      q_output |-> [k \in {"extrinsic", "curiosity"} |->
                       IF k = "extrinsic" THEN <<q1>> ELSE <<q2>>],
      discrete_actions |-> <<a>>] :
        q1 \in SeqsOf(FnVals, 3), q2 \in SeqsOf(FnVals, 3), a \in AllActions(<<2, 1>>)}
    \cup
    {[branches |-> <<2>>, q_output |-> [k \in {"extrinsic"} |-> <<q1, q2>>],
      discrete_actions |-> <<a1, a2>>] :
        q1 \in SeqsOf(FnVals, 2), q2 \in SeqsOf(FnVals, 2),
        a1 \in AllActions(<<2>>), a2 \in AllActions(<<2>>)}

InitCondense ==
    /\ pc = "fn_ready"
    /\ fn_in \in CondenseInputs
    /\ fn_out = None
    /\ AtRest

ApplyCondense ==
    /\ pc = "fn_ready"
    /\ fn_out' = condense_q_streams(fn_in.q_output, fn_in.discrete_actions, fn_in.branches)
    /\ pc' = "fn_done"
    /\ UNCHANGED <<settings, created, groups, steps, steps0, stepped_by, calls, order,
                   actor_norm, critic_w, target_network, losses, batch_info, stats, sal,
                   drop_rate, sal_writes, fn_in,
                   q_w, grad, requires_grad, tracked, beta, before>>

NextCondense == ApplyCondense

SpecCondense == InitCondense /\ [][NextCondense]_vars

\* one observation of 3 features and the goal observation; 2 continuous actions
SaliencyInputs ==
    [sal_observations : {<<v, <<Fin(1), Fin(0)>>>> : v \in SeqsOf(FnVals, 3)},
     sal_cont_actions : SeqsOf(FnVals, 2),
     max_dropout : {Fin(0), Half, Fin(1)}]

InitSaliency ==
    /\ pc = "fn_ready"
    /\ fn_in \in SaliencyInputs
    /\ fn_out = None
    /\ AtRest

ApplyUpdateSaliency ==
    /\ pc = "fn_ready"
    /\ fn_out' = update_saliency([obs |-> <<ZeroVec(3)>>, cont |-> ZeroVec(2)],
                                 fn_in.sal_observations, fn_in.sal_cont_actions,
                                 DiverseIndex, fn_in.max_dropout)
    /\ pc' = "fn_done"
    /\ UNCHANGED <<settings, created, groups, steps, steps0, stepped_by, calls, order,
                   actor_norm, critic_w, target_network, losses, batch_info, stats, sal,
                   drop_rate, sal_writes, fn_in,
                   q_w, grad, requires_grad, tracked, beta, before>>

NextSaliency == ApplyUpdateSaliency

SpecSaliency == InitSaliency /\ [][NextSaliency]_vars

\* two reward streams: one uses the terminal flag, one ignores it
TwoStreams ==
    <<[name |-> "extrinsic", gamma |-> Half, ignore_done |-> FALSE],
      [name |-> "curiosity", gamma |-> Fin(1), ignore_done |-> TRUE]>>

\* the same batch of per-sample scalars for every stream
PerStream(v) == Fcn([name \in {"extrinsic", "curiosity"} |-> v])

\* batches of two samples
QLossBatches ==
    [rewards : SeqsOf({Fin(0), Fin(1)}, 2), dones : SeqsOf({0, 1}, 2),
     target_values : {<<Fin(1), Fin(2)>>, <<Fin(2), Fin(2)>>},
     q : {<<Fin(0), Fin(1)>>}, loss_masks : {<<1, 1>>, <<1, 0>>, <<0, 1>>}]

\* two batches agree on every sample whose loss mask is set
AgreeWhereMasked(x, y) ==
    /\ x.loss_masks = y.loss_masks
    /\ \A b \in 1..Len(x.loss_masks) :
          x.loss_masks[b] = 1 =>
              /\ x.rewards[b] = y.rewards[b] /\ x.dones[b] = y.dones[b]
              /\ x.target_values[b] = y.target_values[b] /\ x.q[b] = y.q[b]

QLossInputs ==
    {x \in [a : QLossBatches, b : QLossBatches] : AgreeWhereMasked(x.a, x.b)}

q_loss_of(batch) ==
    sac_q_loss(TwoStreams, PerStream(batch.q), PerStream(batch.q),
               PerStream(batch.target_values), batch.dones, PerStream(batch.rewards),
               batch.loss_masks)

InitQLoss ==
    /\ pc = "fn_ready"
    /\ fn_in \in QLossInputs
    /\ fn_out = None
    /\ AtRest

\* sac_q_loss on both batches, and the backups it builds for the first
ApplyQLoss ==
    /\ pc = "fn_ready"
    /\ fn_out' = [backup |-> [i \in 1..Len(TwoStreams) |->
                                stream_backup(TwoStreams[i], PerStream(fn_in.a.rewards),
                                              fn_in.a.dones,
                                              PerStream(fn_in.a.target_values))],
                  a |-> q_loss_of(fn_in.a),
                  b |-> q_loss_of(fn_in.b)]
    /\ pc' = "fn_done"
    /\ UNCHANGED <<settings, created, groups, steps, steps0, stepped_by, calls, order,
                   actor_norm, critic_w, target_network, losses, batch_info, stats, sal,
                   drop_rate, sal_writes, fn_in,
                   q_w, grad, requires_grad, tracked, beta, before>>

NextQLoss == ApplyQLoss

SpecQLoss == InitQLoss /\ [][NextQLoss]_vars

\* one sample of a continuous-only action space: scalar policy Q-values
ContinuousBackupInputs ==
    [spec : {sp \in ActionSpecs : sp.discrete_branches = <<>>},
     q1p : {Fin(1), Fin(2)}, q2p : {Fin(0), Fin(1)},
     cont_logp : {<<Fin(0)>>, <<Fin(-1)>>, <<Fin(-2)>>}, disc_logp : {<<>>},
     mede_reward : {Fin(0), Fin(-1)},
     coef : [continuous : {Fin(1), Half}, discrete : {<<>>}],
     mede_strength : {Fin(1), Fin(2)}]

\* one sample of a hybrid action space: one policy Q-value per discrete action
HybridBackupInputs ==
    [spec : {sp \in ActionSpecs : sp.discrete_branches # <<>>},
     q1p : {<<Fin(1), Fin(0)>>, <<Fin(2), Fin(2)>>},
     q2p : {<<Fin(0), Fin(2)>>, <<Fin(1), Fin(1)>>},
     cont_logp : {<<Fin(0)>>, <<Fin(-1)>>, <<Fin(-2)>>},
     disc_logp : {<<Fin(-1), Fin(-1)>>, <<Fin(0), NInf>>},
     mede_reward : {Fin(0), Fin(-1)},
     coef : [continuous : {Fin(1), Half}, discrete : {<<Fin(1)>>, <<Half>>}],
     mede_strength : {Fin(1), Fin(2)}]

InitValueBackup ==
    /\ pc = "fn_ready"
    /\ \/ fn_in \in ContinuousBackupInputs
       \/ fn_in \in HybridBackupInputs
    /\ fn_out = None
    /\ AtRest

\* the backup value sac_value_loss builds for the sample
ApplyValueBackup ==
    /\ pc = "fn_ready"
    /\ fn_out' = v_backup(fn_in.spec, fn_in.q1p, fn_in.q2p, fn_in.cont_logp,
                          fn_in.disc_logp, fn_in.mede_reward, fn_in.coef,
                          fn_in.mede_strength)
    /\ pc' = "fn_done"
    /\ UNCHANGED <<settings, created, groups, steps, steps0, stepped_by, calls, order,
                   actor_norm, critic_w, target_network, losses, batch_info, stats, sal,
                   drop_rate, sal_writes, fn_in,
                   q_w, grad, requires_grad, tracked, beta, before>>

NextValueBackup == ApplyValueBackup

SpecValueBackup == InitValueBackup /\ [][NextValueBackup]_vars

-----------------------------------------------------------------------------
(* The claims *)

\* the value-loss check of the current update call has run
AfterValueCheck ==
    pc \in {"policy_step", "value_step", "entropy_step", "soft_update", "mede_step",
            "saliency_refresh", "return", "returned", "raised"}

\* C1: an update call whose batch has a reward of +inf and only finite other
\* inputs raises the numerical-divergence error and returns no stats mapping.
C1_InfiniteRewardRaises ==
    (AfterValueCheck /\ batch_info.reward_pinf /\ batch_info.rest_finite)
        => (pc = "raised" /\ stats = "none")

\* C2: update raises, and returns no stats mapping, exactly when the value loss
\* averaged over the streams is NaN or +-infinity.
C2_RaisesIffValueLossNonFinite ==
    AfterValueCheck =>
        /\ (pc = "raised") <=> (losses.value.k # "fin")
        /\ (pc = "raised") => (stats = "none")

C2_Witness == pc = "raised" /\ losses.value = NaN /\ stats = "none"

Distinct(v) == \A i, j \in 1..Len(v) : i # j => v[i] # v[j]

\* what the claim says of one saliency vector and its drop rates
MinZeroMaxFull(v, rates, max_dropout) ==
    \A i \in 1..Len(v) : /\ v[i] = MinSeq(v) => rates[i] = Fin(0)
                         /\ v[i] = MaxSeq(v) => rates[i] = max_dropout

\* C3: after update_saliency, for a saliency vector with distinct
\* values and a positive maximum dropout, the minimum-saliency channel has
\* drop probability 0 and the maximum-saliency channel the configured maximum.
C3_MinZeroMaxFull ==
    (pc = "fn_done" /\ Positive(fn_in.max_dropout)) =>
        /\ Distinct(fn_in.sal_observations[1]) =>
              MinZeroMaxFull(fn_in.sal_observations[1], fn_out.obs[1], fn_in.max_dropout)
        /\ Distinct(fn_in.sal_cont_actions) =>
              MinZeroMaxFull(fn_in.sal_cont_actions, fn_out.cont, fn_in.max_dropout)

\* C4: in every update call that returns, the mutating steps are, in order:
\* policy step, value step, entropy step, target soft update, then the MEDE
\* step only if MEDE is enabled, then the saliency refresh only if the
\* saliency dropout is also positive.
C4_StepOrder ==
    pc = "returned" =>
        order = <<"policy_step", "value_step", "entropy_step", "soft_update">>
                \o (IF settings.mede THEN <<"mede_step">> ELSE <<>>)
                \o (IF settings.mede /\ Positive(settings.mede_saliency_dropout)
                    THEN <<"saliency_refresh">> ELSE <<>>)

C4_Witness ==
    /\ pc = "returned"
    /\ settings.mede
    /\ Positive(settings.mede_saliency_dropout)
    /\ Len(order) = 6
    /\ order[5] = "mede_step"
    /\ order[6] = "saliency_refresh"

OptimizerSteps == {"policy_step", "value_step", "entropy_step", "mede_step"}

Positions(name) == {i \in 1..Len(order) : order[i] = name}

\* C5 as stated: in every update call that returns, the soft update is applied
\* exactly once and after all optimizer steps of the call, the MEDE step
\* included.
C5_SoftUpdateAfterAllSteps ==
    pc = "returned" =>
        /\ Cardinality(Positions("soft_update")) = 1
        /\ \A i \in 1..Len(order) :
              order[i] \in OptimizerSteps =>
                  \A j \in Positions("soft_update") : i < j

\* C5 amended: in every update call that returns, the soft update is applied
\* exactly once, after the policy, value and entropy optimizer steps of the
\* call and, when MEDE is enabled, before the MEDE optimizer step.
C5_SoftUpdateOnceBeforeMede ==
    pc = "returned" =>
        /\ Cardinality(Positions("soft_update")) = 1
        /\ \A j \in Positions("soft_update") :
              /\ \A name \in {"policy_step", "value_step", "entropy_step"} :
                    /\ Positions(name) # {}
                    /\ \A i \in Positions(name) : i < j
              /\ settings.mede => Positions("mede_step") # {}
              /\ \A i \in Positions("mede_step") : j < i

C5_Witness ==
    /\ pc = "returned"
    /\ settings.mede
    /\ Positions("soft_update") = {4}
    /\ Positions("mede_step") = {5}

\* C6: every update call that returns increments the step counts of the
\* policy, value and entropy optimizers by exactly one each, and that of the
\* MEDE optimizer by exactly one if MEDE is enabled; otherwise there is no
\* MEDE optimizer and none is stepped.
C6_StepCounts ==
    pc = "returned" =>
        /\ \A o \in {"policy", "value", "entropy"} : steps[o] = steps0[o] + 1
        /\ IF settings.mede
           THEN "mede_optimizer" \in created /\ steps["mede"] = steps0["mede"] + 1
           ELSE "mede_optimizer" \notin created /\ steps["mede"] = 0

C6_Witness ==
    /\ pc = "returned"
    /\ settings.mede
    /\ calls = 2
    /\ steps = [o \in Optimizers |-> 2]
    /\ steps0 = [o \in Optimizers |-> 1]

\* C7: constructing with shared_critic set raises before any critic,
\* Q-network, target network or optimizer is created; with the flag unset the
\* check raises nothing.
C7_SharedCriticRejected ==
    /\ pc = "ctor_raised" => (settings.shared_critic /\ created = {})
    /\ (settings.shared_critic /\ pc # "new") => pc = "ctor_raised"
    /\ "critic" \in created => ~settings.shared_critic

C7_Witness == pc = "ctor_raised" /\ settings.shared_critic /\ created = {}

\* offset of branch i in the concatenated per-branch values
Offset(branches, i) == SumInts(SubSeq(branches, 1, i - 1))

\* the Q-value at the index the action selects in branch i
Selected(q, act, branches, i) == q[Offset(branches, i) + act[i] + 1]

\* C8: for every sample and stream, _condense_q_streams returns the sum over
\* the branches of the Q-value at the index the action selects, divided by the
\* number of branches; for branches [3,2] and action (1,0) that is
\* (q[1] + q[3]) / 2, counting from 0.
C8_CondenseIsBranchAverage ==
    pc = "fn_done" =>
        /\ \A key \in DOMAIN fn_in.q_output :
              \A b \in 1..Len(fn_in.q_output[key]) :
                 fn_out[key][b] =
                     Div(SumSeq([i \in 1..Len(fn_in.branches) |->
                                    Selected(fn_in.q_output[key][b],
                                             fn_in.discrete_actions[b],
                                             fn_in.branches, i)]),
                         Fin(Len(fn_in.branches)))
        /\ (fn_in.branches = <<3, 2>> /\ fn_in.discrete_actions = <<<<1, 0>>>>) =>
              fn_out["extrinsic"][1] =
                  Div(Add(fn_in.q_output["extrinsic"][1][2],
                          fn_in.q_output["extrinsic"][1][4]), Fin(2))

C8_Witness ==
    /\ pc = "fn_done"
    /\ fn_in.branches = <<3, 2>>
    /\ fn_in.discrete_actions = <<<<1, 0>>>>
    /\ fn_in.q_output["extrinsic"][1] = <<Fin(0), Fin(1), Fin(0), Fin(2), Fin(0)>>
    /\ fn_out["extrinsic"][1] = Rat(3, 2)

\* C9 as stated: after construction, no step of update other than the soft
\* update changes the target network, its input-normalization statistics
\* included.
C9_TargetChangedOnlyBySoftUpdate ==
    [][(pc \notin {"new", "checked"} /\ target_network' # target_network)
          => pc = "soft_update"]_vars

\* C9 amended: after construction, the weights of the target network are
\* changed by no step of update other than the soft update; its
\* input-normalization statistics are changed only at the start of update, by
\* the copy of the actor's statistics.
C9_TargetWeightsOnlyBySoftUpdate ==
    [][pc \notin {"new", "checked"} =>
          /\ target_network'.w # target_network.w => pc = "soft_update"
          /\ target_network'.norm # target_network.norm =>
                (pc' = "q_loss" /\ target_network'.norm = actor_norm)]_vars

C9_Witness ==
    /\ pc = "returned"
    /\ target_network.w = Half
    /\ target_network.norm = Fin(1)
    /\ steps["value"] = 1

\* C10: the parameter groups of the four optimizers are the actor parameters,
\* the Q1/Q2 plus value-network parameters, the log entropy coefficients and
\* the MEDE network parameters; they are pairwise disjoint, hold no target
\* parameter, and no parameter is ever stepped by two optimizers.
C10_GroupsDisjoint ==
    pc \notin {"new", "checked", "ctor_raised", "fn_ready", "fn_done"} =>
        /\ groups["policy"] = ActorParameters
        /\ groups["value"] = QNetworkParameters \cup CriticParameters
        /\ groups["entropy"] = LogEntCoefParameters
        /\ groups["mede"] = IF ~settings.mede THEN {}
                            ELSE IF settings.mede_noise THEN MedeParameters
                            ELSE {"mede._encoder", "mede._last_layer"}
        /\ \A o1, o2 \in Optimizers : o1 # o2 => groups[o1] \cap groups[o2] = {}
        /\ \A o \in Optimizers : groups[o] \cap TargetParameters = {}
        /\ \A p \in AllParameters : Cardinality(stepped_by[p]) <= 1

C10_Witness ==
    /\ pc = "returned"
    /\ settings.mede
    /\ stepped_by["actor"] = {"policy"}
    /\ stepped_by["critic"] = {"value"}
    /\ stepped_by["q1_network"] = {"value"}
    /\ stepped_by["log_ent_coef.continuous"] = {"entropy"}
    /\ stepped_by["mede._encoder"] = {"mede"}
    /\ stepped_by["target_network"] = {}

\* the optimizer has been constructed
Constructed == pc \notin {"new", "checked", "ctor_raised", "fn_ready", "fn_done"}

LastStep == IF order = <<>> THEN "none" ELSE order[Len(order)]

\* C12: right after each optimizer has stepped, the gradient on every
\* parameter it owns comes from the loss of that step alone: policy loss,
\* Q1+Q2+value loss, entropy loss, MEDE loss.
C12_OwnLossOnly ==
    /\ (pc = "value_step" /\ LastStep = "policy_step") =>
          \A p \in groups["policy"] : grad[p] \subseteq {"policy_loss"}
    /\ (pc = "entropy_step" /\ LastStep = "value_step") =>
          \A p \in groups["value"] : grad[p] \subseteq {"value_loss"}
    /\ (pc = "soft_update" /\ LastStep = "entropy_step") =>
          \A p \in groups["entropy"] : grad[p] \subseteq {"entropy_loss"}
    /\ LastStep = "mede_step" =>
          \A p \in groups["mede"] : grad[p] \subseteq {"mede_loss"}

\* in the second call, the value optimizer has just stepped on its own loss
\* alone; the entropy coefficient still holds what the policy loss and the
\* previous call left on it
C12_Witness ==
    /\ pc = "entropy_step"
    /\ calls = 2
    /\ grad["q1_network"] = {"value_loss"}
    /\ grad["critic"] = {"value_loss"}
    /\ grad["log_ent_coef.continuous"] = {"entropy_loss", "policy_loss"}

\* C13: whenever the saliency refresh returns, every Q1 and Q2 parameter
\* requires gradient again and holds none, and the refresh changed no
\* Q-network weight.
C13_RefreshRestores ==
    /\ [](LastStep = "saliency_refresh" =>
             \A p \in QNetworkParameters : requires_grad[p] /\ grad[p] = {})
    /\ [][pc = "saliency_refresh" => q_w' = q_w]_vars

C13_Witness ==
    /\ pc = "return"
    /\ LastStep = "saliency_refresh"
    /\ calls = 2
    /\ q_w = Fin(2)
    /\ \A p \in QNetworkParameters : requires_grad[p] /\ grad[p] = {}

\* C14: when _update_saliency exits by an exception raised after the freeze,
\* the Q-network parameters are left with gradient tracking enabled.
C14_UnfrozenOnException ==
    pc = "saliency_raised" => \A p \in QNetworkParameters : requires_grad[p]

\* C15: in noise mode beta starts at 0 and is never negative; it is changed
\* only by the dual ascent max(0, beta + 0.0005 * (KL - target)), inside the
\* MEDE step of update and so at most once per call, never by the optimizer.
C15_BetaDualAscentOnly ==
    /\ []((Constructed /\ settings.mede /\ settings.mede_noise) =>
             /\ beta.k = "fin" /\ beta.n >= 0
             /\ pc = "idle" => beta = Fin(0))
    /\ [][(Constructed /\ beta' # beta) =>
             /\ pc = "mede_step"
             /\ \E kl \in KlVals :
                   LET raised == Add(beta, Mul(Rat(5, 10000), Sub(kl, Fin(1))))
                   IN  beta' = IF Less(raised, Fin(0)) THEN Fin(0) ELSE raised]_vars

C15_Witness ==
    /\ pc = "returned"
    /\ calls = 2
    /\ steps["mede"] = 2
    /\ beta = Rat(1, 2000)

SaliencyActive == settings.mede /\ Positive(settings.mede_saliency_dropout)

ZeroSal == [obs |-> <<<<Fin(0), Fin(0)>>, <<Fin(0), Fin(0)>>>>, cont |-> <<Fin(0)>>]

\* C16: with MEDE enabled and a positive saliency dropout every update that
\* returns has written the smoothed saliency and the drop rates exactly once;
\* otherwise no sequence of updates moves them from their initial zeros; and
\* nothing but the saliency refresh writes them.
C16_SaliencyWrittenOncePerUpdate ==
    /\ []((Constructed /\ ~SaliencyActive) =>
             /\ sal = ZeroSal
             /\ sal_writes = 0
             /\ drop_rate = IF settings.mede
                            THEN [obs |-> <<<<Fin(0), Fin(0)>>>>, cont |-> <<Fin(0)>>]
                            ELSE [obs |-> <<>>, cont |-> <<>>])
    /\ []((pc = "returned" /\ SaliencyActive) => sal_writes = 1)
    /\ [][(Constructed /\ (sal' # sal \/ drop_rate' # drop_rate)) =>
             (pc = "saliency_refresh" /\ sal_writes' = sal_writes + 1)]_vars

C16_Witness ==
    /\ pc = "returned"
    /\ calls = 2
    /\ SaliencyActive
    /\ sal_writes = 1
    /\ sal.obs[1] # <<Fin(0), Fin(0)>>
    /\ sal.obs[1] # before.sal.obs[1]
    /\ drop_rate # before.drop_rate

\* C20: when update aborts on a non-finite value loss, no optimizer has
\* stepped, the target network has not been smoothed, beta has not been
\* updated and the saliency has not been refreshed in that call: weights, beta
\* and saliency state are what they were before the call.
C20_AbortBeforeAnyStep ==
    pc = "raised" =>
        /\ order = <<>>
        /\ steps = steps0
        /\ critic_w = before.critic_w
        /\ q_w = before.q_w
        /\ target_network.w = before.target_w
        /\ beta = before.beta
        /\ sal = before.sal
        /\ drop_rate = before.drop_rate
        /\ sal_writes = 0

C20_Witness ==
    /\ pc = "raised"
    /\ calls = 2
    /\ steps = [o \in Optimizers |-> 1]
    /\ beta = Rat(1, 1000)
    /\ critic_w = Fin(1)
    /\ sal_writes = 0

\* C17: in sac_q_loss the backup of stream i is
\* reward + (1 - done_mask_i * done) * gamma_i * target_value: for a stream that
\* uses the terminal flag a terminal sample's backup is the reward alone; for
\* a stream that ignores it the backup is reward + gamma_i * target_value
\* whatever done is.
C17_BackupUsesDoneMask ==
    pc = "fn_done" =>
        \A i \in 1..Len(TwoStreams) : \A b \in 1..Len(fn_in.a.dones) :
            LET reward == fn_in.a.rewards[b]
                bootstrap == Mul(TwoStreams[i].gamma, fn_in.a.target_values[b])
            IN  fn_out.backup[i][b] =
                    IF ~TwoStreams[i].ignore_done /\ fn_in.a.dones[b] = 1
                    THEN reward
                    ELSE Add(reward, bootstrap)

\* a terminal first sample and a non-terminal second one
C17_Witness ==
    /\ pc = "fn_done"
    /\ fn_in.a.dones = <<1, 0>>
    /\ fn_in.a.rewards = <<Fin(1), Fin(0)>>
    /\ fn_in.a.target_values = <<Fin(2), Fin(2)>>
    /\ fn_out.backup[1] = <<Fin(1), Fin(1)>>
    /\ fn_out.backup[2] = <<Fin(3), Fin(2)>>

\* min over the two Q heads of the policy Q-value of the sample
MinPolicyQ(x) ==
    IF x.spec.discrete_branches = <<>> THEN Min2(x.q1p, x.q2p)
    ELSE Min2(branch_mean_q(x.q1p, x.disc_logp, x.spec.discrete_branches),
              branch_mean_q(x.q2p, x.disc_logp, x.spec.discrete_branches))

\* the branch-averaged discrete entropy bonus of the sample
DiscreteBonus(x) ==
    IF x.spec.discrete_branches = <<>> THEN Fin(0)
    ELSE branch_mean_ent_bonus(x.coef.discrete, x.disc_logp, x.spec.discrete_branches)

\* C18: the backup value is min(Q1_policy, Q2_policy) minus the entropy bonus
\* plus mede_strength * mede reward, and the continuous term
\* sum(alpha_c * log_prob_c) is subtracted in continuous-only and in hybrid
\* action spaces alike.
C18_ContinuousTermSubtracted ==
    pc = "fn_done" =>
        fn_out = Add(Sub(Sub(MinPolicyQ(fn_in), DiscreteBonus(fn_in)),
                         Mul(fn_in.coef.continuous, fn_in.cont_logp[1])),
                     Mul(fn_in.mede_strength, fn_in.mede_reward))

\* C19: two batches that agree on every sample whose loss mask is set have
\* the same Q1 loss and the same Q2 loss.
C19_QLossIgnoresMaskedSamples ==
    pc = "fn_done" => fn_out.a = fn_out.b

\* r is a number in the closed interval [0, highest]
InUnitRange(r, highest) == r.k = "fin" /\ Leq(Fin(0), r) /\ Leq(r, highest)

AllZero(v) == \A i \in 1..Len(v) : v[i] = Fin(0)

\* C21: after any sequence of saliency refreshes every stored drop rate, per
\* observation feature and per continuous action, is a number in
\* [0, configured maximum dropout], also for a saliency vector of length 1 or
\* with all entries equal; an all-zero saliency vector leaves the stored drop
\* rates as they were.
C21_DropRatesInRange ==
    (Constructed /\ settings.mede) =>
        /\ \A i \in 1..Len(drop_rate.obs) : \A j \in 1..Len(drop_rate.obs[i]) :
              InUnitRange(drop_rate.obs[i][j], settings.mede_saliency_dropout)
        /\ \A j \in 1..Len(drop_rate.cont) :
              InUnitRange(drop_rate.cont[j], settings.mede_saliency_dropout)
        /\ LastStep = "saliency_refresh" =>
              /\ AllZero(sal.obs[1]) => drop_rate.obs[1] = before.drop_rate.obs[1]
              /\ AllZero(sal.cont) => drop_rate.cont = before.drop_rate.cont

====
